---- MODULE Spec2Model ----
(***************************************************************************)
(* A model of aecs.hpp (AECS v0.1): the entity-id codec, the component     *)
(* type counter, the per-type component stores, the registry (entity table *)
(* and reuse queue) and the view iterator.                                 *)
(*                                                                         *)
(* Ids are unsigned integers of 2*HalfBits bits; arithmetic on them is     *)
(* taken modulo 2^(2*HalfBits), as it is for the std::uint32_t default     *)
(* (and for std::uint64_t), where no integer promotion takes place.        *)
(* A 64-bit mask is the set of its set bit positions, a subset of 0..63.   *)
(***************************************************************************)
EXTENDS Integers, Sequences, FiniteSets, TLC

\* ---------------------------------------------------------------- bounds
\* Half of the bit width of entity_id (16 for the default std::uint32_t).
HalfBits == 6
\* Largest number of fresh indices the model allocates.
MaxEntities == 2
\* Largest length of the reuse queue the model lets delete_entity build.
MaxQueue == 2
\* The component manager is driven on its own at the indices 0..MaxStoreIndex
\* and at MinCapacity.
MaxStoreIndex == 1

\* ------------------------------------------------------ program constants
MAX_COMPONENTS == 64
\* The size both vectors are resized to when the index is 0.
MinCapacity == 32
\* Width of int, the type of the expression (1 << component_id).
IntBits == 32

Types == {"A", "B"}
\* Component payloads: the value-initialised T{} and one other value.
DefaultValue == 0
Values == {DefaultValue, 1}
NoId == -1
NoType == "-"

Half == 2 ^ HalfBits
Modulus == Half * Half

VARIABLES
    entities,             \* registry::entities: index -> [id, mask]
    deleted_ids,          \* registry::deleted_ids
    current_index,        \* registry::current_index
    allocators,           \* component_manager::allocators: type -> arr
    component_id,         \* the static id of get_component_id<T>, NoId before the first call
    current_component_id, \* internal::current_component_id
    live,                 \* ids new_entity returned and delete_entity has not been given since
    occupied,             \* <<T, i>>: store T had an insert at i and no destroy at i since
    view,                 \* the view object of a traversal in progress
    yielded,              \* the tuples the traversal has produced so far
    last,                 \* the last call that changed the registry, and what it returned
    oob,                  \* some access went outside a vector's size
    crashed,              \* the process was terminated by such an access, or by assert
    assertions,           \* the build defines AECS_USE_ASSERTIONS
    wideShift,            \* what the build's int shift gives for a count of 32 or more
    cIndex, cVersion, cId, cPc   \* inputs and result of the codec round trip

regVars == <<entities, deleted_ids, current_index, allocators, component_id,
             current_component_id, live, occupied, view, yielded, last, oob, crashed>>
codecVars == <<cIndex, cVersion, cId, cPc>>
buildVars == <<assertions, wideShift>>
vars == <<regVars, codecVars, buildVars>>

\* ------------------------------------------------------------- bit helpers
RECURSIVE BitOr(_, _)
BitOr(a, b) ==
    IF a = 0 THEN b
    ELSE IF b = 0 THEN a
    ELSE (IF a % 2 = 1 \/ b % 2 = 1 THEN 1 ELSE 0) + 2 * BitOr(a \div 2, b \div 2)

\* ------------------------------------------------------------------ codec
get_entity_index(entity) == entity \div Half

get_entity_version(entity) == ((entity * Half) % Modulus) \div Half

\* set_entity_index without the shift of the index into the high half
set_entity_index_NoShift(entity, index) ==
    BitOr(index % Modulus, get_entity_version(entity))

set_entity_index(entity, index) ==
    BitOr((index * Half) % Modulus, get_entity_version(entity))

\* entity = version; entity |= index;   (index is not shifted back up)
set_entity_version(entity, version) ==
    BitOr(version, get_entity_index(entity))

create_invalid_entity == Modulus - 1

entity_is_valid(entity) == entity # create_invalid_entity

\* ------------------------------------------------------ component type ids
\* get_component_id without the increment of the counter
get_component_id_NoIncrement(st, T) ==
    IF st.ids[T] = NoId
    THEN [ids |-> [st.ids EXCEPT ![T] = st.cur], cur |-> st.cur]
    ELSE st

\* get_component_id<T>() on the counter state st = [ids, cur]: the static
\* local is initialised from current_component_id++ on the first call only.
get_component_id(st, T) ==
    IF st.ids[T] = NoId
    THEN [ids |-> [st.ids EXCEPT ![T] = st.cur], cur |-> st.cur + 1]
    ELSE st

RECURSIVE RegisterAll(_, _)
RegisterAll(st, Ts) ==
    IF Ts = <<>> THEN st
    ELSE RegisterAll(get_component_id(st, Head(Ts)), Tail(Ts))

IdState == [ids |-> component_id, cur |-> current_component_id]

\* The value a call of get_component_id<T>() returns in the current state.
IdOf(T) == get_component_id(IdState, T).ids[T]

\* (1 << component_id) converted to std::uint64_t: the shift is done in int,
\* so for 31 the result is INT_MIN, whose conversion sets bits 31..63.
\* A shift by IntBits or more is undefined: the build either uses the count
\* modulo IntBits ("wrap", the x86 shift) or yields 0 ("zero", the ARM shift).
\* No id of 32 or more arises in Spec, SpecView and SpecStore.
ShiftOne(k) ==
    CASE k < IntBits - 1 -> {k}
      [] k = IntBits - 1 -> (IntBits - 1)..(MAX_COMPONENTS - 1)
      [] OTHER -> IF wideShift = "wrap"
                  THEN (IF k % IntBits = IntBits - 1
                        THEN (IntBits - 1)..(MAX_COMPONENTS - 1)
                        ELSE {k % IntBits})
                  ELSE {}

\* ------------------------------------------------------------- vectors
Size(arr) == Cardinality(DOMAIN arr)

\* a resize that does not keep the elements already there
ResizeDropping(arr, n, dflt) == [i \in 0..(n - 1) |-> dflt]

Resize(arr, n, dflt) == [i \in 0..(n - 1) |-> IF i \in DOMAIN arr THEN arr[i] ELSE dflt]

EmptyVector == [i \in {} |-> 0]

\* A value-initialised internal::entity: id zero-initialised, mask = 0.
NewSlot == [id |-> 0, mask |-> {}]

\* ------------------------------------------------------- component stores
\* insert without the assignment arr[index] = component
AllocInsertNoWrite(arr, entity, component) ==
    LET index == get_entity_index(entity)
    IN  IF index >= Size(arr)
        THEN Resize(arr, IF index = 0 THEN MinCapacity ELSE index * 2, DefaultValue)
        ELSE arr

\* component_allocator::insert
AllocInsert(arr, entity, component) ==
    LET index == get_entity_index(entity)
        grown == IF index >= Size(arr)
                 THEN Resize(arr, IF index = 0 THEN MinCapacity ELSE get_entity_index(entity) * 2,
                             DefaultValue)
                 ELSE arr
    IN  [grown EXCEPT ![index] = component]

\* component_manager::insert: the allocator is created on first use
MgrInsert(allocs, T, entity, component) ==
    LET arr == IF T \in DOMAIN allocs THEN allocs[T] ELSE EmptyVector
    IN  [U \in (DOMAIN allocs) \cup {T} |->
            IF U = T THEN AllocInsert(arr, entity, component) ELSE allocs[U]]

\* An access arr[index] of the store of T is inside the vector.
InBounds(allocs, T, index) == T \in DOMAIN allocs /\ index < Size(allocs[T])

\* component_allocator::destroy where the index is inside the vector
AllocDestroy(arr, entity) ==
    LET index == get_entity_index(entity)
    IN  IF index < Size(arr) THEN [arr EXCEPT ![index] = DefaultValue] ELSE arr

\* component_manager::entity_destroyed: every allocator is told
MgrEntityDestroyed(allocs, entity) ==
    [U \in DOMAIN allocs |-> AllocDestroy(allocs[U], entity)]

\* the stores whose destroy(entity) writes past the end of arr
DestroyedOutOfBounds(allocs, entity) ==
    {U \in DOMAIN allocs : get_entity_index(entity) >= Size(allocs[U])}

\* ------------------------------------------------------- registry queries
\* registry::has, for an id whose index is inside the entity table
has(entity, T) ==
    entities[get_entity_index(entity)].mask \cap ShiftOne(IdOf(T)) # {}

\* registry::get / component_allocator::get
get(entity, T) == allocators[T][get_entity_index(entity)]

Call(op, e, T, v, ret, b) == [op |-> op, e |-> e, T |-> T, v |-> v, ret |-> ret, b |-> b]

NoView == [active |-> FALSE, types |-> <<>>, mask |-> {}, pos |-> -1]

\* ------------------------------------------------------------------- Init
Init ==
    /\ entities = EmptyVector
    /\ deleted_ids = <<>>
    /\ current_index = 0
    /\ allocators = [U \in {} |-> EmptyVector]
    /\ component_id = [T \in Types |-> NoId]
    /\ current_component_id = 0
    /\ live = {}
    /\ occupied = {}
    /\ view = NoView
    /\ yielded = <<>>
    /\ last = Call("init", 0, NoType, 0, 0, FALSE)
    /\ oob = FALSE
    /\ crashed = FALSE
    /\ assertions = FALSE
    /\ wideShift = "wrap"
    /\ cIndex = 0 /\ cVersion = 0 /\ cId = 0 /\ cPc = "idle"

Idle == ~crashed /\ ~view.active

\* ------------------------------------------------------------- new_entity
\* the branch taken when deleted_ids.size() > 0; the queue is read with
\* front() and is not popped
NewEntityReuse ==
    /\ Idle
    /\ Len(deleted_ids) > 0
    /\ LET old_id == Head(deleted_ids)
           version == get_entity_version(old_id)
           index == get_entity_index(old_id)
           new_id == set_entity_version(old_id, (version + 1) % Modulus)
       IN  /\ index \in DOMAIN entities
           /\ entities' = [entities EXCEPT ![index] = [id |-> new_id, mask |-> {}]]
           /\ live' = live \cup {new_id}
           /\ last' = Call("new_entity", old_id, NoType, 1, new_id, TRUE)
    /\ UNCHANGED <<deleted_ids, current_index, allocators, component_id,
                   current_component_id, occupied, view, yielded, oob, crashed>>

\* the branch that allocates the next unused index, driven while fewer than
\* limit indices are in use
NewEntityFreshBelow(limit) ==
    /\ Idle
    /\ Len(deleted_ids) = 0
    /\ current_index < limit
    /\ LET resized == IF current_index >= Size(entities)
                      THEN Resize(entities,
                                  IF current_index = 0 THEN MinCapacity ELSE current_index * 2,
                                  NewSlot)
                      ELSE entities
           id == set_entity_index(0, current_index)
       IN  /\ entities' = [resized EXCEPT ![current_index].id = id]
           /\ live' = live \cup {id}
           /\ last' = Call("new_entity", 0, NoType, 0, id, TRUE)
    /\ current_index' = current_index + 1
    /\ UNCHANGED <<deleted_ids, allocators, component_id, current_component_id,
                   occupied, view, yielded, oob, crashed>>

NewEntityFresh == NewEntityFreshBelow(MaxEntities)

new_entity == NewEntityReuse \/ NewEntityFresh

\* ---------------------------------------------------------- delete_entity
delete_entity(entity) ==
    /\ Idle
    /\ entity \in live
    /\ Len(deleted_ids) < MaxQueue
    /\ LET index == get_entity_index(entity)
           out == DestroyedOutOfBounds(allocators, entity)
       IN  /\ index \in DOMAIN entities
           /\ entities' = [entities EXCEPT ![index] = [id |-> create_invalid_entity, mask |-> {}]]
           /\ deleted_ids' = Append(deleted_ids, entity)
           /\ allocators' = MgrEntityDestroyed(allocators, entity)
           /\ occupied' = {p \in occupied : p[2] # index}
           /\ oob' = (oob \/ out # {})
           \* a write past the end of arr either lands in memory no vector
           \* of the registry owns, or terminates the process
           /\ crashed' \in (IF out # {} THEN {FALSE, TRUE} ELSE {FALSE})
    /\ live' = live \ {entity}
    /\ last' = Call("delete_entity", entity, NoType, 0, 0, FALSE)
    /\ UNCHANGED <<current_index, component_id, current_component_id, view, yielded>>

\* -------------------------------------------------- has / assign / get
Has(entity, T) ==
    /\ Idle
    /\ entity \in live
    /\ LET st == get_component_id(IdState, T)
       IN  /\ component_id' = st.ids
           /\ current_component_id' = st.cur
    /\ UNCHANGED <<entities, deleted_ids, current_index, allocators, live, occupied,
                   view, yielded, last, oob, crashed>>

\* precondition !has<T>(entity)
assign(entity, T, component) ==
    /\ Idle
    /\ entity \in live
    /\ ~has(entity, T)
    /\ LET st == get_component_id(IdState, T)
           index == get_entity_index(entity)
       IN  /\ component_id' = st.ids
           /\ current_component_id' = st.cur
           /\ entities' = [entities EXCEPT
                             ![index].mask = @ \cup ShiftOne(st.ids[T])]
           /\ allocators' = MgrInsert(allocators, T, entity, component)
           /\ occupied' = occupied \cup {<<T, index>>}
    /\ last' = Call("assign", entity, T, component, 0, FALSE)
    /\ UNCHANGED <<deleted_ids, current_index, live, view, yielded, oob, crashed>>

\* precondition has<T>(entity).  Line 498 reads component_manager.destroy(entity),
\* which names no component type and is rejected when unassign<T> is
\* instantiated; it is taken as destroy<T>(entity).
unassign(entity, T) ==
    /\ Idle
    /\ entity \in live
    /\ has(entity, T)
    /\ LET index == get_entity_index(entity)
           inside == InBounds(allocators, T, index)
       IN  /\ entities' = [entities EXCEPT
                             ![index].mask = @ \ ShiftOne(IdOf(T))]
           /\ allocators' = IF inside
                            THEN [allocators EXCEPT ![T] = AllocDestroy(@, entity)]
                            ELSE allocators
           /\ occupied' = occupied \ {<<T, index>>}
           /\ oob' = (oob \/ ~inside)
           /\ crashed' \in (IF inside THEN {FALSE} ELSE {FALSE, TRUE})
    /\ last' = Call("unassign", entity, T, 0, 0, FALSE)
    /\ UNCHANGED <<deleted_ids, current_index, component_id, current_component_id,
                   live, view, yielded>>

\* precondition has<T>(entity); the value read through the returned reference
Get(entity, T) ==
    /\ Idle
    /\ entity \in live
    /\ has(entity, T)
    /\ LET inside == InBounds(allocators, T, get_entity_index(entity))
       IN  /\ oob' = (oob \/ ~inside)
           /\ crashed' \in (IF inside THEN {FALSE} ELSE {FALSE, TRUE})
    /\ UNCHANGED <<entities, deleted_ids, current_index, allocators, component_id,
                   current_component_id, live, occupied, view, yielded, last>>

\* ------------------------------------------------------------------- view
RECURSIVE Scan(_, _)
Scan(p, mask) ==
    IF p < current_index
    THEN IF mask \subseteq entities[p].mask THEN p ELSE Scan(p + 1, mask)
    ELSE p

\* view::find_next_valid from position pos (-1 is the wrapped initial value)
find_next_valid(pos, mask) == Scan(pos + 1, mask)

RECURSIVE QueryMask(_)
\* the mask built by the fold (add_type_to_mask<Types>(), ...)
QueryMask(Ts) ==
    IF Ts = <<>> THEN {}
    ELSE ShiftOne(IdOf(Head(Ts))) \cup QueryMask(Tail(Ts))

ViewTypeLists == {<<>>, <<"A">>, <<"B">>, <<"A", "B">>}

\* new_view<Types...>() and begin(): the constructor registers the types,
\* builds the mask and advances to the first match
new_view(Ts) ==
    /\ Idle
    /\ LET st == RegisterAll(IdState, Ts)
       IN  /\ component_id' = st.ids
           /\ current_component_id' = st.cur
    /\ view' = [active |-> TRUE, types |-> Ts, mask |-> QueryMask(Ts)',
                pos |-> find_next_valid(-1, QueryMask(Ts)')]
    /\ yielded' = <<>>
    /\ last' = Call("new_view", 0, NoType, 0, 0, FALSE)
    /\ UNCHANGED <<entities, deleted_ids, current_index, allocators, live, occupied,
                   oob, crashed>>

\* view::end(): the position a traversal stops at
ViewEnd == current_index

\* one pass of the range-for body of for_each: operator!=, operator*, operator++
ForEachStep ==
    /\ ~crashed
    /\ view.active
    /\ view.pos # ViewEnd
    /\ LET id == entities[view.pos].id
           index == get_entity_index(id)
           n == Len(view.types)
           outside == {k \in 1..n : ~InBounds(allocators, view.types[k], index)}
       IN  /\ \E vals \in [1..n -> Values] :
                /\ \A k \in (1..n) \ outside : vals[k] = get(id, view.types[k])
                /\ yielded' = Append(yielded, [pos |-> view.pos, id |-> id, vals |-> vals])
           /\ oob' = (oob \/ outside # {})
           /\ crashed' \in (IF outside # {} THEN {FALSE, TRUE} ELSE {FALSE})
    /\ view' = [view EXCEPT !.pos = find_next_valid(view.pos, view.mask)]
    /\ last' = Call("for_each_step", 0, NoType, 0, 0, FALSE)
    /\ UNCHANGED <<entities, deleted_ids, current_index, allocators, component_id,
                   current_component_id, live, occupied>>

\* the traversal has reached end() and the view is dropped
ForEachEnd ==
    /\ ~crashed
    /\ view.active
    /\ view.pos = ViewEnd
    /\ view' = NoView
    /\ yielded' = <<>>
    /\ last' = Call("for_each_end", 0, NoType, 0, 0, FALSE)
    /\ UNCHANGED <<entities, deleted_ids, current_index, allocators, component_id,
                   current_component_id, live, occupied, oob, crashed>>

\* ------------------------------------------------------- codec round trip
InitCodec ==
    /\ entities = EmptyVector
    /\ deleted_ids = <<>>
    /\ current_index = 0
    /\ allocators = [U \in {} |-> EmptyVector]
    /\ component_id = [T \in Types |-> NoId]
    /\ current_component_id = 0
    /\ live = {}
    /\ occupied = {}
    /\ view = NoView
    /\ yielded = <<>>
    /\ last = Call("init", 0, NoType, 0, 0, FALSE)
    /\ oob = FALSE
    /\ crashed = FALSE
    /\ assertions = FALSE
    /\ wideShift = "wrap"
    /\ cIndex \in 0..(Half - 1)
    /\ cVersion \in 0..(Half - 1)
    /\ cId = 0
    /\ cPc = "start"

\* with_index(0, index)
CodecSetIndex ==
    /\ cPc = "start"
    /\ cId' = set_entity_index(0, cIndex)
    /\ cPc' = "indexed"
    /\ UNCHANGED <<regVars, cIndex, cVersion, buildVars>>

\* with_version(id, version)
CodecSetVersion ==
    /\ cPc = "indexed"
    /\ cId' = set_entity_version(cId, cVersion)
    /\ cPc' = "done"
    /\ UNCHANGED <<regVars, cIndex, cVersion, buildVars>>

\* ------------------------------------------- component manager on its own
StoreIndices == (0..MaxStoreIndex) \cup {MinCapacity}

\* component_manager::insert<T>(entity, component) for an entity of the given
\* index; last.ret is the size of the store of T before the call
StoreInsert(T, index, component) ==
    /\ ~crashed
    /\ allocators' = MgrInsert(allocators, T, set_entity_index(0, index), component)
    /\ occupied' = occupied \cup {<<T, index>>}
    /\ last' = Call("insert", index, T, component,
                    IF T \in DOMAIN allocators THEN Size(allocators[T]) ELSE 0, FALSE)
    /\ UNCHANGED <<entities, deleted_ids, current_index, component_id,
                   current_component_id, live, view, yielded, oob, crashed>>

\* component_manager::entity_destroyed(entity) for an entity of the given
\* index; last.b tells whether some store was written past its end
StoreEntityDestroyed(index) ==
    /\ ~crashed
    /\ LET entity == set_entity_index(0, index)
           out == DestroyedOutOfBounds(allocators, entity)
       IN  /\ allocators' = MgrEntityDestroyed(allocators, entity)
           /\ occupied' = {p \in occupied : p[2] # index}
           /\ oob' = (oob \/ out # {})
           /\ crashed' \in (IF out # {} THEN {FALSE, TRUE} ELSE {FALSE})
           /\ last' = Call("entity_destroyed", index, NoType, 0, 0, out # {})
    /\ UNCHANGED <<entities, deleted_ids, current_index, component_id,
                   current_component_id, live, view, yielded>>

NextStore ==
    \/ \E T \in Types, i \in StoreIndices, v \in Values :
          StoreInsert(T, i, v) /\ UNCHANGED <<codecVars, buildVars>>
    \/ \E i \in StoreIndices : StoreEntityDestroyed(i) /\ UNCHANGED <<codecVars, buildVars>>

\* --------------------------------------------- component type ids alone
\* One more type than the mask has bits; the types are named in the order of
\* their first call.
TypeNames == 1..(MAX_COMPONENTS + 1)

InitTypes ==
    /\ entities = EmptyVector
    /\ deleted_ids = <<>>
    /\ current_index = 0
    /\ allocators = [U \in {} |-> EmptyVector]
    /\ component_id = [T \in TypeNames |-> NoId]
    /\ current_component_id = 0
    /\ live = {}
    /\ occupied = {}
    /\ view = NoView
    /\ yielded = <<>>
    /\ last = Call("init", 0, NoType, 0, 0, FALSE)
    /\ oob = FALSE
    /\ crashed = FALSE
    /\ assertions \in BOOLEAN
    /\ wideShift = "wrap"
    /\ cIndex = 0 /\ cVersion = 0 /\ cId = 0 /\ cPc = "idle"

\* a call of get_component_id<T>(): last.ret is the value of the static id,
\* last.b tells whether the call returned (AECS_ASSERT(id < 64) lets it)
TypeId(T) ==
    /\ ~crashed
    /\ IF T = 1 THEN TRUE
       ELSE (component_id[T] # NoId \/ component_id[T - 1] # NoId)
    /\ LET st == get_component_id(IdState, T)
           id == st.ids[T]
           aborts == assertions /\ ~(id < MAX_COMPONENTS)
       IN  /\ component_id' = st.ids
           /\ current_component_id' = st.cur
           /\ crashed' = aborts
           /\ last' = Call("type_id", T, NoType, 0, id, ~aborts)
    /\ UNCHANGED <<entities, deleted_ids, current_index, allocators, live, occupied,
                   view, yielded, oob, buildVars, codecVars>>

NextTypes == \E T \in TypeNames : TypeId(T)

SpecTypes == InitTypes /\ [][NextTypes]_vars

\* ------------------------------------- masks for any component type id
\* The ids the two types of the model are given: the ends of the range and
\* the ids around the width of int.
MaskIds == {0, 1, IntBits - 2, IntBits - 1, IntBits, IntBits + 1,
            MAX_COMPONENTS - 2, MAX_COMPONENTS - 1}

\* a registry constructed after all MAX_COMPONENTS ids were handed out in the
\* process, two of them to the types of the model
InitMask ==
    /\ entities = EmptyVector
    /\ deleted_ids = <<>>
    /\ current_index = 0
    /\ allocators = [U \in {} |-> EmptyVector]
    /\ component_id \in {f \in [Types -> MaskIds] : \A T \in Types, U \in Types :
                                                        f[T] = f[U] => T = U}
    /\ current_component_id = MAX_COMPONENTS
    /\ live = {}
    /\ occupied = {}
    /\ view = NoView
    /\ yielded = <<>>
    /\ last = Call("init", 0, NoType, 0, 0, FALSE)
    /\ oob = FALSE
    /\ crashed = FALSE
    /\ assertions = FALSE
    /\ wideShift \in {"wrap", "zero"}
    /\ cIndex = 0 /\ cVersion = 0 /\ cId = 0 /\ cPc = "idle"

NextMask ==
    \/ NewEntityFresh /\ UNCHANGED <<codecVars, buildVars>>
    \/ \E e \in live, T \in Types : Has(e, T) /\ UNCHANGED <<codecVars, buildVars>>
    \/ \E e \in live, T \in Types, v \in Values :
          assign(e, T, v) /\ UNCHANGED <<codecVars, buildVars>>
    \/ \E e \in live, T \in Types : unassign(e, T) /\ UNCHANGED <<codecVars, buildVars>>

SpecMask == InitMask /\ [][NextMask]_vars

\* --------------------------------------------- fresh allocation and growth
\* new_entity() on a registry nothing was deleted from, past the first
\* capacity of the entity table; components go to the first two entities only.
MaxFresh == 33

FirstEntities == {e \in live : get_entity_index(e) \in {0, 1}}

NextFresh ==
    \/ NewEntityFreshBelow(MaxFresh) /\ UNCHANGED <<codecVars, buildVars>>
    \/ \E e \in FirstEntities, T \in Types, v \in Values :
          assign(e, T, v) /\ UNCHANGED <<codecVars, buildVars>>
    \/ \E e \in FirstEntities, T \in Types :
          unassign(e, T) /\ UNCHANGED <<codecVars, buildVars>>

SpecFresh == Init /\ [][NextFresh]_vars

\* ------------------------------------------------------------ specifications
NextRegistry ==
    \/ new_entity /\ UNCHANGED <<codecVars, buildVars>>
    \/ \E e \in live : delete_entity(e) /\ UNCHANGED <<codecVars, buildVars>>
    \/ \E e \in live, T \in Types : Has(e, T) /\ UNCHANGED <<codecVars, buildVars>>
    \/ \E e \in live, T \in Types, v \in Values : assign(e, T, v) /\ UNCHANGED <<codecVars, buildVars>>
    \/ \E e \in live, T \in Types : unassign(e, T) /\ UNCHANGED <<codecVars, buildVars>>
    \/ \E e \in live, T \in Types : Get(e, T) /\ UNCHANGED <<codecVars, buildVars>>

NextView ==
    \/ \E Ts \in ViewTypeLists : new_view(Ts) /\ UNCHANGED <<codecVars, buildVars>>
    \/ ForEachStep /\ UNCHANGED <<codecVars, buildVars>>
    \/ ForEachEnd /\ UNCHANGED <<codecVars, buildVars>>

\* the registry without traversals
Spec == Init /\ [][NextRegistry]_vars

NextAll == NextRegistry \/ NextView

\* the registry with view traversals; nothing else runs while one is in progress
SpecView == Init /\ [][NextAll]_vars

\* the component manager and its stores, called with any entity index
SpecStore == Init /\ [][NextStore]_vars

NextCodec == CodecSetIndex \/ CodecSetVersion

SpecCodec == InitCodec /\ [][NextCodec]_vars

\* ------------------------------------------------------------------ claims
Reused == last.op = "new_entity" /\ last.v = 1
RegisteredTypes == {T \in Types : component_id[T] # NoId}

\* C1: every id new_entity() returns is valid, and at the moment of return
\* has<T>(id) is false for every component type T (the slot at index_of(id)
\* has an empty mask).
C1_ReturnedIdValidAndEmpty ==
    last.op = "new_entity" =>
        /\ entity_is_valid(last.ret)
        /\ \A T \in Types : ~has(last.ret, T)

\* C2: when the reuse queue is non-empty, new_entity() returns an id e2 made
\* from the oldest queued id e with index_of(e2) = index_of(e),
\* version_of(e2) = version_of(e) + 1 and e2 # e, and e2 is the current id of
\* slot index_of(e).
C2_ReuseKeepsIndexBumpsVersion ==
    Reused =>
        /\ get_entity_index(last.ret) = get_entity_index(last.e)
        /\ get_entity_version(last.ret) = get_entity_version(last.e) + 1
        /\ last.ret # last.e
        /\ entities[get_entity_index(last.e)].id = last.ret

C4_ReusedIndexIsCleared ==
    Reused =>
        /\ \A T \in Types : ~has(last.ret, T)
        /\ \A T \in DOMAIN allocators :
              get_entity_index(last.e) < Size(allocators[T])
                  => allocators[T][get_entity_index(last.e)] = DefaultValue

RECURSIVE MatchSeq(_, _)
\* the positions below current_index, ascending, whose slot holds a valid id
\* and a mask that contains the query mask
MatchSeq(p, mask) ==
    IF p >= current_index THEN <<>>
    ELSE (IF entity_is_valid(entities[p].id) /\ mask \subseteq entities[p].mask
          THEN <<p>> ELSE <<>>) \o MatchSeq(p + 1, mask)

\* C5: a traversal of new_view<T1..Tn>() (n >= 1) yields exactly the live
\* entities whose mask contains the query mask, each once, in ascending
\* index order.
C5_ViewYieldsExactlyMatches ==
    (view.active /\ view.types # <<>>) =>
        LET expected == MatchSeq(0, view.mask)
        IN  /\ Len(yielded) <= Len(expected)
            /\ \A k \in 1..Len(yielded) :
                  /\ yielded[k].pos = expected[k]
                  /\ yielded[k].id = entities[expected[k]].id
            /\ view.pos = ViewEnd => Len(yielded) = Len(expected)

\* C6: a view of any type list, the empty one included, never stops on a
\* slot whose id is the invalid sentinel, so no yielded tuple carries it.
C6_ViewSkipsInvalidSlots ==
    /\ (view.active /\ view.pos < ViewEnd) => entity_is_valid(entities[view.pos].id)
    /\ \A k \in 1..Len(yielded) : entity_is_valid(yielded[k].id)

\* C7: for index and version below 2^HalfBits,
\* index_of(with_version(with_index(0, index), version)) = index and
\* version_of of the same id = version.
C7_CodecRoundTrip ==
    cPc = "done" =>
        /\ get_entity_index(cId) = cIndex
        /\ get_entity_version(cId) = cVersion

\* C8: for every slot i and registered component type with id k, bit k of
\* the slot's mask is set exactly when the store of that type holds a payload
\* at i that was inserted and has not been destroyed since.
C8_MaskBitIffPayload ==
    \A i \in DOMAIN entities : \A T \in RegisteredTypes :
        (component_id[T] \in entities[i].mask) <=> (<<T, i>> \in occupied)

\* C9: every id in the reuse queue has its slot set to the invalid sentinel
\* (new_entity() removes the id it reuses from the queue).
C9_QueuedIdsHaveInvalidSlots ==
    \A k \in 1..Len(deleted_ids) :
        entities[get_entity_index(deleted_ids[k])].id = create_invalid_entity

\* C10: the index half of the valid id held by an allocated slot i is i, and
\* every live id is below the table's capacity and is the id of its slot.
C10_SlotIdIndexIsSlotIndex ==
    /\ \A i \in 0..(current_index - 1) :
          entity_is_valid(entities[i].id) => get_entity_index(entities[i].id) = i
    /\ \A e \in live :
          /\ get_entity_index(e) < Size(entities)
          /\ entities[get_entity_index(e)].id = e

\* C11: after insert(index, value) the store's capacity is above index, is
\* not below the capacity before the call, and is at least 32.
C11_StoreGrowth ==
    last.op = "insert" =>
        LET n == Size(allocators[last.T])
        IN  /\ n > last.e
            /\ n >= last.ret
            /\ n >= MinCapacity

\* C12: an insert of type T at index i, growing the store or not, leaves the
\* payload of every store at every other index as it was.
C12_InsertPreservesOthers ==
    [][last'.op = "insert" =>
          \A T \in DOMAIN allocators : \A j \in DOMAIN allocators[T] :
              (T # last'.T \/ j # last'.e) =>
                  /\ T \in DOMAIN allocators'
                  /\ j \in DOMAIN allocators'[T]
                  /\ allocators'[T][j] = allocators[T][j]]_vars

\* an insert that grew a store which already held a payload at another index
C12_Witness ==
    /\ last.op = "insert"
    /\ last.ret > 0
    /\ Size(allocators[last.T]) > last.ret
    /\ \E j \in DOMAIN allocators[last.T] :
          /\ j # last.e
          /\ <<last.T, j>> \in occupied
          /\ allocators[last.T][j] = 1

\* C13: entity_destroyed(e) reaches every registered store, and each store
\* is accessed at an index below its size, where it then holds the default.
C13_BroadcastInRange ==
    last.op = "entity_destroyed" =>
        \A T \in DOMAIN allocators :
            /\ last.e < Size(allocators[T])
            /\ allocators[T][last.e] = DefaultValue

\* C14: the ids handed out are 0, 1, 2, ... in the order of the types' first
\* calls, a later call for the same type returns the id of its first call,
\* no two types share an id, and with assertions enabled a call whose id
\* would be 64 or more aborts instead of returning.
C14_TypeIds ==
    /\ [](LET registered == {T \in DOMAIN component_id : component_id[T] # NoId}
          IN  /\ Cardinality(registered) = current_component_id
              /\ {component_id[T] : T \in registered} = 0..(current_component_id - 1)
              /\ \A T \in registered, U \in registered :
                    component_id[T] = component_id[U] => T = U
              /\ last.op = "type_id" => last.ret = component_id[last.e]
              /\ (last.op = "type_id" /\ assertions /\ last.ret >= MAX_COMPONENTS)
                    => (~last.b /\ crashed)
              /\ (last.op = "type_id" /\ last.ret < MAX_COMPONENTS) => (last.b /\ ~crashed))
    /\ [][\A T \in DOMAIN component_id :
             component_id[T] # NoId => component_id'[T] = component_id[T]]_vars

\* the 65th distinct type in a build with assertions: the call aborts
C14_Witness ==
    /\ assertions
    /\ crashed
    /\ last.op = "type_id"
    /\ last.e = MAX_COMPONENTS + 1
    /\ last.ret = MAX_COMPONENTS
    /\ ~last.b

\* C15: a traversal makes at most current_index advances, never passes
\* end(), is not cut short, and when it reaches end() the callback has been
\* invoked exactly once per matching entity, with (id, get<T1>(id), ...).
C15_TraversalFiniteAndExact ==
    view.active =>
        /\ Len(yielded) <= current_index
        /\ view.pos <= ViewEnd
        /\ ~crashed
        /\ view.pos = ViewEnd =>
              LET expected == MatchSeq(0, view.mask)
              IN  /\ Len(yielded) = Len(expected)
                  /\ \A k \in 1..Len(expected) :
                        /\ yielded[k].id = entities[expected[k]].id
                        /\ \A n \in 1..Len(view.types) :
                              yielded[k].vals[n] = get(yielded[k].id, view.types[n])

\* C16: freed ids are reused first in, first out and each once: a reusing
\* new_entity() takes the id at the head of the queue, makes its slot live
\* and removes it from the queue; with an empty queue new_entity() allocates
\* the next fresh index.
C16_ReuseIsFifoOnce ==
    [][/\ NewEntityReuse =>
             /\ entity_is_valid(entities'[get_entity_index(Head(deleted_ids))].id)
             /\ deleted_ids' = Tail(deleted_ids)
       /\ (new_entity /\ deleted_ids = <<>>) =>
             /\ current_index' = current_index + 1
             /\ get_entity_index(last'.ret) = current_index]_vars

\* C17: the mask of a slot is exactly the set of the ids of the types
\* assigned to it and not unassigned since (each type contributes the single
\* bit of its id), and has<T> tells exactly whether T is among them, so that
\* assign and unassign of one type never change has of another.
C17_OneBitPerTypeId ==
    /\ \A i \in 0..(current_index - 1) :
          entities[i].mask = {component_id[T] : T \in {U \in Types : <<U, i>> \in occupied}}
    /\ \A e \in live : \A T \in Types :
          has(e, T) <=> (<<T, get_entity_index(e)>> \in occupied)

\* C18: with an empty reuse queue the n-th fresh new_entity() (n = number of
\* ids handed out so far) returns the id with index n and version 0; the
\* entity table is grown first when n equals its capacity, its capacity is
\* then at least MinCapacity and above n and never shrinks, and every other
\* slot keeps its id and mask.
C18_FreshIndexAndGrowth ==
    [][NewEntityFreshBelow(MaxFresh) =>
          LET n == Cardinality(live)
          IN  /\ get_entity_index(last'.ret) = n
              /\ get_entity_version(last'.ret) = 0
              /\ last'.ret \notin live
              /\ entities'[n].id = last'.ret
              /\ Size(entities') >= MinCapacity
              /\ Size(entities') > n
              /\ Size(entities') >= Size(entities)
              /\ (n = Size(entities) => Size(entities') > Size(entities))
              /\ \A i \in DOMAIN entities : i # n => entities'[i] = entities[i]]_vars

\* the table has grown a second time, at n = MinCapacity, under a slot that
\* carries components
C18_Witness ==
    /\ last.op = "new_entity"
    /\ get_entity_index(last.ret) = MinCapacity
    /\ Size(entities) > MinCapacity
    /\ entities[0].mask # {}
    /\ entities[1].mask # {}

\* C19: the valid ids held by the allocated slots are pairwise distinct, and
\* new_entity() never returns an id that was returned earlier and has not
\* been deleted since.
C19_LiveIdsDistinct ==
    [][/\ \A i \in 0..(current_index' - 1) : \A j \in 0..(current_index' - 1) :
             (entity_is_valid(entities'[i].id) /\ entities'[i].id = entities'[j].id)
                 => i = j
       /\ new_entity => last'.ret \notin live]_vars

\* C20: delete_entity(e) on a live id e appends e to the reuse queue and
\* changes only slot index_of(e) and the store entries at index_of(e); every
\* other live entity f keeps its slot id, its mask, and has<T>(f) and
\* get<T>(f) for every T.
C20_DeleteFrame ==
    [][\A e \in live : delete_entity(e) =>
          LET index == get_entity_index(e)
          IN  /\ deleted_ids' = Append(deleted_ids, e)
              /\ \A i \in DOMAIN entities : i # index => entities'[i] = entities[i]
              /\ \A T \in DOMAIN allocators : \A j \in DOMAIN allocators[T] :
                    j # index => allocators'[T][j] = allocators[T][j]
              /\ \A f \in live \ {e} :
                    /\ entities'[get_entity_index(f)] = entities[get_entity_index(f)]
                    /\ \A T \in Types :
                          /\ has(f, T)' = has(f, T)
                          /\ (has(f, T) /\ InBounds(allocators, T, get_entity_index(f)))
                                => get(f, T)' = get(f, T)]_vars

====
